---- MODULE Spec2Model ----
\* A model of monitor.py: the polling run of main() (fetch, extract, load
\* state, diff, notify, save state) over a sequence of non-overlapping runs
\* sharing one state file, and the pure path classifier looks_like_product.
EXTENDS Integers, Sequences, FiniteSets, TLC

\* ---------------------------------------------------------------- bounds
\* Product URLs are 1..MaxUrl; the order of the integers is the order
\* sorted() gives the URL strings.
MaxUrl == 3
\* Number of runs of main() in a behaviour.
MaxRuns == 3
\* Longest product_urls list of a state file found before the first run.
MaxFileLen == 2
\* Longest path, in chunks, handed to looks_like_product.
MaxChunks == 3

URLS == 1..MaxUrl

\* ------------------------------------------------------- pure functions
Range(s) == {s[i] : i \in 1..Len(s)}

MinOf(S) == CHOOSE m \in S : \A x \in S : m <= x

RECURSIVE sorted(_)
\* Python's sorted() over a set of URLs: ascending, one entry per element.
sorted(S) == IF S = {} THEN <<>>
             ELSE <<MinOf(S)>> \o sorted(S \ {MinOf(S)})

\* A diff that reports every current URL, seen before or not.
diff_links_all(old, new) == sorted(new)

\* A diff that takes the symmetric difference.
diff_links_sym(old, new) == sorted((new \ old) \cup (old \ new))

\* diff_links(old, new): sorted(new - old).
diff_links(old, new) == sorted(new \ old)

\* The state file: absent, not parseable as the JSON object the program
\* writes ("garbage": any text json.load or the product_urls lookup rejects),
\* opened for writing and not yet completely written ("truncated"), or a
\* JSON object whose product_urls list is urls ("ok").
Absent == [kind |-> "absent", urls |-> <<>>]
Garbage == [kind |-> "garbage", urls |-> <<>>]
Truncated == [kind |-> "truncated", urls |-> <<>>]
OkFile(list) == [kind |-> "ok", urls |-> list]

\* A load_state without its except clause: a parse error leaves it.
load_state_noexcept(f) ==
    IF f.kind = "absent" THEN [raised |-> FALSE, urls |-> {}]
    ELSE IF f.kind = "ok" THEN [raised |-> FALSE, urls |-> Range(f.urls)]
    ELSE [raised |-> TRUE, urls |-> {}]

\* load_state(): set() for a missing file (os.path.exists is false) and,
\* through the except clause, for every file whose parsing raises; otherwise
\* set(data["product_urls"]). raised says whether an exception leaves
\* load_state.
load_state(f) ==
    IF f.kind = "absent" THEN [raised |-> FALSE, urls |-> {}]
    ELSE IF f.kind = "ok" THEN [raised |-> FALSE, urls |-> Range(f.urls)]
    ELSE [raised |-> FALSE, urls |-> {}]

\* The text save_state() writes once json.dump has completed.
save_payload(urls) == OkFile(sorted(urls))

\* Exit status of the process: main()'s return value, 1 for an exception that
\* leaves main(), NoExit while the run has not ended or was killed.
NoExit == 0 - 1
ExitOk == 0
ExitFetch == 2
ExitUncaught == 1


\* A send_email whose SMTP session is outside the try block.
send_email_uncaught(configured, smtpOk) ==
    IF ~configured THEN "unconfigured"
    ELSE IF smtpOk THEN "sent"
    ELSE "raised"

\* send_email(subject, body): False without an SMTP session when one of the
\* five settings is empty, False when the SMTP session raises, True otherwise.
\* The exception of the SMTP session is caught inside send_email.
send_email(configured, smtpOk) ==
    IF ~configured THEN "unconfigured"
    ELSE IF smtpOk THEN "sent"
    ELSE "smtp_error"

\* notify_new_items(new_urls): the notifications it hands to send_email, each
\* with the URLs it lists and send_email's outcome; none for an empty list.
notify_new_items(new_urls, configured, smtpOk) ==
    IF new_urls = <<>> THEN <<>>
    ELSE << [urls |-> new_urls, result |-> send_email(configured, smtpOk)] >>

\* ------------------------------------------------- looks_like_product
\* A path is the sequence of its characters.
Contains(s, pat) ==
    \E i \in 1..(Len(s) - Len(pat) + 1) : SubSeq(s, i, i + Len(pat) - 1) = pat

UpperToLower ==
    "A" :> "a" @@ "B" :> "b" @@ "C" :> "c" @@ "D" :> "d" @@ "E" :> "e" @@ "F" :> "f" @@
    "G" :> "g" @@ "H" :> "h" @@ "I" :> "i" @@ "J" :> "j" @@ "K" :> "k" @@ "L" :> "l" @@
    "M" :> "m" @@ "N" :> "n" @@ "O" :> "o" @@ "P" :> "p" @@ "Q" :> "q" @@ "R" :> "r" @@
    "S" :> "s" @@ "T" :> "t" @@ "U" :> "u" @@ "V" :> "v" @@ "W" :> "w" @@ "X" :> "x" @@
    "Y" :> "y" @@ "Z" :> "z"

Lower(c) == IF c \in DOMAIN UpperToLower THEN UpperToLower[c] ELSE c

LowerSeq(s) == [i \in 1..Len(s) |-> Lower(s[i])]

\* pat.search(path) for a literal pattern compiled with re.IGNORECASE.
SearchIgnoreCase(pat, s) == Contains(LowerSeq(s), LowerSeq(pat))

\* The markers of the any(seg in path ...) test, matched case-sensitively.
RejectMarkers ==
    { <<"/", "c", "/">>,
      <<"/", "e", "n", "/", "c", "/">>,
      <<"/", "m", "/">>,
      <<"/", "H", "o", "m", "e">>,
      <<"/", "s", "e", "a", "r", "c", "h">>,
      <<"/", "?">> }

\* PRODUCT_PATTERNS: /MtG-, /Magic-The-Gathering, Booster-(Box|Display).
MatchesProductPattern(s) ==
    \/ SearchIgnoreCase(<<"/", "M", "t", "G", "-">>, s)
    \/ SearchIgnoreCase(<<"/", "M", "a", "g", "i", "c", "-", "T", "h", "e", "-", "G", "a", "t", "h", "e", "r", "i", "n", "g">>, s)
    \/ SearchIgnoreCase(<<"B", "o", "o", "s", "t", "e", "r", "-", "B", "o", "x">>, s)
    \/ SearchIgnoreCase(<<"B", "o", "o", "s", "t", "e", "r", "-", "D", "i", "s", "p", "l", "a", "y">>, s)

RECURSIVE LStrip(_)
LStrip(s) == IF s # <<>> /\ Head(s) = "/" THEN LStrip(Tail(s)) ELSE s

RECURSIVE RStrip(_)
RStrip(s) == IF s # <<>> /\ s[Len(s)] = "/"
             THEN RStrip(SubSeq(s, 1, Len(s) - 1)) ELSE s

\* path.strip("/")
Strip(s) == RStrip(LStrip(s))

\* len(s.split("/")): one more than the number of "/" in s.
SplitCount(s) == Cardinality({i \in 1..Len(s) : s[i] = "/"}) + 1

\* The length the single segment of the fallback rule must exceed.
FallbackMinLen == 8

\* The rule chain with the accept patterns tried before the reject markers.
looks_like_product_accept_first(path) ==
    IF MatchesProductPattern(path) THEN TRUE
    ELSE IF \E seg \in RejectMarkers : Contains(path, seg) THEN FALSE
    ELSE IF /\ Contains(path, <<"/">>)
            /\ ~Contains(path, <<".">>)
            /\ SplitCount(Strip(path)) = 1
         THEN Len(Strip(path)) > FallbackMinLen
         ELSE FALSE

\* looks_like_product(path)
looks_like_product(path) ==
    IF \E seg \in RejectMarkers : Contains(path, seg) THEN FALSE
    ELSE IF MatchesProductPattern(path) THEN TRUE
    ELSE IF /\ Contains(path, <<"/">>)
            /\ ~Contains(path, <<".">>)
            /\ SplitCount(Strip(path)) = 1
         THEN Len(Strip(path)) > FallbackMinLen
         ELSE FALSE

\* The pieces the classified paths are put together from.
Chunks ==
    { <<"/">>,
      <<"/", "c">>,
      <<"/", "m">>,
      <<"/", "e", "n">>,
      <<"/", "H", "o", "m", "e">>,
      <<"/", "s", "e", "a", "r", "c", "h">>,
      <<"?">>,
      <<".">>,
      <<"/", "M", "t", "G", "-">>,
      <<"m", "t", "g", "-">>,
      <<"/", "M", "a", "g", "i", "c", "-", "T", "h", "e", "-", "G", "a", "t", "h", "e", "r", "i", "n", "g">>,
      <<"B", "o", "o", "s", "t", "e", "r", "-", "D", "i", "s", "p", "l", "a", "y">>,
      <<"b", "o", "o", "s", "t", "e", "r", "-", "b", "o", "x">>,
      <<"a", "b", "c", "d", "e", "f", "g", "h">>,
      <<"i">> }

RECURSIVE PathsUpTo(_)
\* All concatenations of at most n chunks.
PathsUpTo(n) == IF n = 0 THEN {<<>>}
                ELSE LET shorter == PathsUpTo(n - 1)
                     IN shorter \cup {q \o c : q \in shorter, c \in Chunks}

\* /MtG-Booster-Display-Foo
PathProductExample == <<"/", "M", "t", "G", "-", "B", "o", "o", "s", "t", "e", "r", "-", "D", "i", "s", "p", "l", "a", "y", "-", "F", "o", "o">>

\* /c/MtG-Booster-Displays
PathCategoryExample == <<"/", "c", "/", "M", "t", "G", "-", "B", "o", "o", "s", "t", "e", "r", "-", "D", "i", "s", "p", "l", "a", "y", "s">>

Paths == PathsUpTo(MaxChunks) \cup {PathProductExample, PathCategoryExample}

\* ---------------------------------------------------------------- state
VARIABLES
    file,            \* the state file STATE_FILE
    pc,              \* position of the current run of main()
    runs,            \* number of runs started so far
    current_urls,    \* main: current_urls
    prev_urls,       \* main: prev_urls
    new,             \* main: new
    first_run,       \* main: first_run
    loaded,          \* load_state() has returned in this run
    payload,         \* the argument of the save_state call of this run
    saveCalled,      \* save_state has been called in this run
    notes,           \* the send_email calls of this run, in order
    exitCode,        \* exit status of the run
    failure,         \* the operation whose failure ended the run, or "none"
    fileAtStart,     \* the state file as it was when the run started
    persistedBefore, \* URLs load_state() could return at the start of this
                     \* or an earlier run
    notifyFirst,     \* os.environ.get("NOTIFY_ON_FIRST_RUN") == "1", drawn when
                     \* the run enters the first-run branch that reads it
    path,            \* the argument of a looks_like_product call
    verdict          \* its result: "pending", "product" or "other"

vars == << file, pc, runs, current_urls, prev_urls, new, first_run, loaded,
           payload, saveCalled, notes, exitCode, failure, fileAtStart,
           persistedBefore, notifyFirst, path, verdict >>

\* The variables of a run of main().
runVars == << file, pc, runs, current_urls, prev_urls, new, first_run,
              loaded, payload, saveCalled, notes, exitCode, failure,
              fileAtStart, persistedBefore, notifyFirst >>

RECURSIVE SeqsUpTo(_)
\* All product_urls lists of length at most n.
SeqsUpTo(n) == IF n = 0 THEN {<<>>}
               ELSE LET shorter == SeqsUpTo(n - 1)
                    IN shorter \cup {Append(s, u) : s \in shorter, u \in URLS}

\* State files the first run can find: none, an unparseable one, or a JSON
\* object with any product_urls list (sorted or not, with or without repeats).
InitialFiles == {Absent, Garbage} \cup {OkFile(s) : s \in SeqsUpTo(MaxFileLen)}

Running == {"start", "fetched", "extracted", "notify", "save_open",
            "save_write", "boot_notify"}

NotifiedNow == UNION {Range(notes[i].urls) : i \in 1..Len(notes)}

\* No looks_like_product call is under way.
NoCall == path = <<>> /\ verdict = "pending"

Init ==
    /\ NoCall
    /\ file \in InitialFiles
    /\ pc = "start"
    /\ runs = 1
    /\ current_urls = {}
    /\ prev_urls = {}
    /\ new = <<>>
    /\ first_run = FALSE
    /\ loaded = FALSE
    /\ payload = {}
    /\ saveCalled = FALSE
    /\ notes = <<>>
    /\ exitCode = NoExit
    /\ failure = "none"
    /\ fileAtStart = file
    /\ persistedBefore = load_state(file).urls
    /\ notifyFirst = FALSE

\* The run ends: main() returns code, or an exception leaves it (code 1).
Exit(code, why) ==
    /\ pc' = "exited"
    /\ exitCode' = code
    /\ failure' = why

\* main: http_get(CATEGORY_URL) returns a 2xx response.
HttpGetOk ==
    /\ pc = "start"
    /\ pc' = "fetched"
    /\ UNCHANGED << file, runs, current_urls, prev_urls, new, first_run,
                    loaded, payload, saveCalled, notes, exitCode, failure,
                    fileAtStart, persistedBefore, notifyFirst, path, verdict
                    >>

\* main: http_get raises (network error, timeout, non-2xx): return 2.
HttpGetFail ==
    /\ pc = "start"
    /\ Exit(ExitFetch, "fetch")
    /\ UNCHANGED << file, runs, current_urls, prev_urls, new, first_run,
                    loaded, payload, saveCalled, notes, fileAtStart,
                    persistedBefore, notifyFirst, path, verdict >>

\* main: extract_product_links returns; current_urls is the set of its URLs.
ExtractOk ==
    /\ pc = "fetched"
    /\ \E c \in SUBSET URLS : current_urls' = c
    /\ pc' = "extracted"
    /\ UNCHANGED << file, runs, prev_urls, new, first_run, loaded, payload,
                    saveCalled, notes, exitCode, failure, fileAtStart,
                    persistedBefore, notifyFirst, path, verdict >>

\* main: extract_product_links raises: urljoin/urlparse raise ValueError on
\* an href such as "//[x"; nothing in main catches it.
ExtractRaise ==
    /\ pc = "fetched"
    /\ Exit(ExitUncaught, "extract")
    /\ UNCHANGED << file, runs, current_urls, prev_urls, new, first_run,
                    loaded, payload, saveCalled, notes, fileAtStart,
                    persistedBefore, notifyFirst, path, verdict >>

\* main: prev_urls = load_state(); first_run; new = diff_links(...); then the
\* branch: a first run goes on to save_state(current_urls), a run with new
\* URLs to notify_new_items(new), any other run returns 0.
MainLoadDiff ==
    /\ pc = "extracted"
    /\ LET got == load_state(file)
           d == diff_links(got.urls, current_urls)
       IN IF got.raised
          THEN /\ Exit(ExitUncaught, "load")
               /\ UNCHANGED << prev_urls, new, first_run, loaded, payload,
                               notifyFirst >>
          ELSE /\ prev_urls' = got.urls
               /\ first_run' = (Cardinality(got.urls) = 0)
               /\ new' = d
               /\ loaded' = TRUE
               /\ IF Cardinality(got.urls) = 0
                  THEN /\ pc' = "save_open"
                       /\ payload' = current_urls
                       /\ notifyFirst' \in BOOLEAN
                       /\ UNCHANGED << exitCode, failure >>
                  ELSE IF d # <<>>
                  THEN /\ pc' = "notify"
                       /\ UNCHANGED << payload, exitCode, failure, notifyFirst
                                       >>
                  ELSE /\ Exit(ExitOk, "none")
                       /\ UNCHANGED << payload, notifyFirst >>
    /\ UNCHANGED << file, runs, current_urls, saveCalled, notes, fileAtStart,
                    persistedBefore, path, verdict >>

\* main, run with new URLs: notify_new_items(new), then
\* save_state(prev_urls.union(new)) whatever send_email returned.
NotifyNew ==
    /\ pc = "notify"
    /\ \E configured \in BOOLEAN, smtpOk \in BOOLEAN :
         LET sent == notify_new_items(new, configured, smtpOk)
         IN /\ notes' = notes \o sent
            /\ IF \E i \in 1..Len(sent) : sent[i].result = "raised"
               THEN /\ Exit(ExitUncaught, "notify")
                    /\ UNCHANGED payload
               ELSE /\ pc' = "save_open"
                    /\ payload' = prev_urls \cup Range(new)
                    /\ UNCHANGED << exitCode, failure >>
    /\ UNCHANGED << file, runs, current_urls, prev_urls, new, first_run,
                    loaded, saveCalled, fileAtStart, persistedBefore,
                    notifyFirst, path, verdict >>

\* save_state: open(STATE_FILE, "w") creates or truncates the file.
SaveOpenOk ==
    /\ pc = "save_open"
    /\ saveCalled' = TRUE
    /\ file' = Truncated
    /\ pc' = "save_write"
    /\ UNCHANGED << runs, current_urls, prev_urls, new, first_run, loaded,
                    payload, notes, exitCode, failure, fileAtStart,
                    persistedBefore, notifyFirst, path, verdict >>

\* save_state: open raises OSError (unwritable path); nothing catches it.
SaveOpenFail ==
    /\ pc = "save_open"
    /\ saveCalled' = TRUE
    /\ Exit(ExitUncaught, "save_open")
    /\ UNCHANGED << file, runs, current_urls, prev_urls, new, first_run,
                    loaded, payload, notes, fileAtStart, persistedBefore,
                    notifyFirst, path, verdict >>

\* save_state: json.dump and the close complete; a first run goes on to the
\* NOTIFY_ON_FIRST_RUN check, any other run returns 0.
SaveWriteOk ==
    /\ pc = "save_write"
    /\ file' = save_payload(payload)
    /\ IF first_run
       THEN /\ pc' = "boot_notify"
            /\ UNCHANGED << exitCode, failure >>
       ELSE Exit(ExitOk, "none")
    /\ UNCHANGED << runs, current_urls, prev_urls, new, first_run, loaded,
                    payload, saveCalled, notes, fileAtStart, persistedBefore,
                    notifyFirst, path, verdict >>

\* save_state: a write raises OSError (disk full) after the truncation;
\* nothing catches it and the file stays incomplete.
SaveWriteFail ==
    /\ pc = "save_write"
    /\ Exit(ExitUncaught, "save_write")
    /\ UNCHANGED << file, runs, current_urls, prev_urls, new, first_run,
                    loaded, payload, saveCalled, notes, fileAtStart,
                    persistedBefore, notifyFirst, path, verdict >>

\* main, first run after save_state: notify_new_items(sorted(current_urls))
\* if NOTIFY_ON_FIRST_RUN is "1"; return 0.
BootNotify ==
    /\ pc = "boot_notify"
    /\ \E configured \in BOOLEAN, smtpOk \in BOOLEAN :
         LET sent == IF notifyFirst
                     THEN notify_new_items(sorted(current_urls), configured, smtpOk)
                     ELSE <<>>
         IN /\ notes' = notes \o sent
            /\ IF \E i \in 1..Len(sent) : sent[i].result = "raised"
               THEN Exit(ExitUncaught, "notify")
               ELSE Exit(ExitOk, "none")
    /\ UNCHANGED << file, runs, current_urls, prev_urls, new, first_run,
                    loaded, payload, saveCalled, fileAtStart, persistedBefore,
                    notifyFirst, path, verdict >>

\* The process is killed from outside while the run is under way; the
\* run's variables keep the values they had.
Kill ==
    /\ pc \in Running
    /\ pc' = "killed"
    /\ UNCHANGED << file, runs, current_urls, prev_urls, new, first_run,
                    loaded, payload, saveCalled, notes, exitCode, failure,
                    fileAtStart, persistedBefore, notifyFirst, path, verdict
                    >>

\* The external scheduler starts the next run once the previous one is over.
StartRun ==
    /\ pc \in {"exited", "killed"}
    /\ runs < MaxRuns
    /\ runs' = runs + 1
    /\ pc' = "start"
    /\ current_urls' = {}
    /\ prev_urls' = {}
    /\ new' = <<>>
    /\ first_run' = FALSE
    /\ loaded' = FALSE
    /\ payload' = {}
    /\ saveCalled' = FALSE
    /\ notes' = <<>>
    /\ exitCode' = NoExit
    /\ failure' = "none"
    /\ fileAtStart' = file
    /\ persistedBefore' = persistedBefore \cup load_state(file).urls
    /\ notifyFirst' = FALSE
    /\ UNCHANGED << file, path, verdict >>

Next ==
    \/ HttpGetOk
    \/ HttpGetFail
    \/ ExtractOk
    \/ ExtractRaise
    \/ MainLoadDiff
    \/ NotifyNew
    \/ SaveOpenOk
    \/ SaveOpenFail
    \/ SaveWriteOk
    \/ SaveWriteFail
    \/ BootNotify
    \/ Kill
    \/ StartRun

Spec == Init /\ [][Next]_vars

\* ---------------------------------------- the classifier on its own
\* extract_product_links is about to call looks_like_product(path).
InitClassify ==
    /\ path \in Paths
    /\ verdict = "pending"
    /\ file = Absent
    /\ pc = "fetched"
    /\ runs = 1
    /\ current_urls = {}
    /\ prev_urls = {}
    /\ new = <<>>
    /\ first_run = FALSE
    /\ loaded = FALSE
    /\ payload = {}
    /\ saveCalled = FALSE
    /\ notes = <<>>
    /\ exitCode = NoExit
    /\ failure = "none"
    /\ fileAtStart = file
    /\ persistedBefore = {}
    /\ notifyFirst = FALSE

\* extract_product_links: looks_like_product(path) returns.
Classify ==
    /\ verdict = "pending"
    /\ verdict' = IF looks_like_product(path) THEN "product" ELSE "other"
    /\ UNCHANGED path
    /\ UNCHANGED runVars

NextClassify == Classify

SpecClassify == InitClassify /\ [][NextClassify]_vars

\* ---------------------------------------------------------------- claims
Ended == pc = "exited"
NewSet == current_urls \ prev_urls
Ascending(s) == \A i \in 1..Len(s) : \A j \in 1..Len(s) : i < j => s[i] < s[j]

\* C1: the persisted URL set never shrinks over a run: what load_state()
\* returns after a run that ended includes what it returned at its start, and
\* after a non-bootstrap run that found new URLs and ended without a failure
\* it is exactly previous \cup (current - previous).
C1_NeverShrinks ==
    Ended =>
        /\ load_state(fileAtStart).urls \subseteq load_state(file).urls
        /\ (loaded /\ ~first_run /\ NewSet # {} /\ failure = "none"
              => load_state(file).urls = prev_urls \cup NewSet)

\* C2: once a URL has been persisted (load_state() could return it when this
\* or an earlier run started), no notification of the run lists it, so that
\* no URL is notified again after the run that notified and persisted it.
C2_NotifiedOnce ==
    NotifiedNow \cap persistedBefore = {}

\* C3: a run ends with exit code 2 exactly when the fetch failed and with
\* exit code 0 in every other case.
C3_ExitCodes ==
    Ended =>
        /\ (exitCode = ExitFetch <=> failure = "fetch")
        /\ (failure # "fetch" => exitCode = ExitOk)

\* C4 as stated: every run that finds no new URLs does not call save_state,
\* leaves the state file as it was, sends nothing and exits 0.
C4_NoNewUntouched ==
    loaded /\ NewSet = {} =>
        /\ ~saveCalled
        /\ file = fileAtStart
        /\ notes = <<>>
        /\ (Ended => exitCode = ExitOk)

\* C4 amended: every non-bootstrap run (loaded previous set non-empty) that
\* finds no new URLs has ended with exit code 0 without calling save_state,
\* without changing the state file and without a notification; save_state is
\* called, and the file changed, only by a run that bootstraps or finds new
\* URLs.
C4_NonBootstrapNoNewUntouched ==
    /\ (loaded /\ ~first_run /\ NewSet = {} =>
            /\ ~saveCalled
            /\ file = fileAtStart
            /\ notes = <<>>
            /\ Ended /\ exitCode = ExitOk)
    /\ (saveCalled \/ file # fileAtStart =>
            loaded /\ (first_run \/ NewSet # {}))

\* C4 witness: a non-bootstrap run in which a previously seen URL dropped out
\* of the listing and nothing new appeared has ended.
C4_Witness ==
    /\ Ended /\ loaded /\ ~first_run
    /\ NewSet = {} /\ prev_urls \ current_urls # {} /\ current_urls # {}

\* C5: after a bootstrap run the state file holds exactly the current
\* extraction, the exit code is 0, and a notification listing all current URLs
\* is attempted if the first-run flag is set and none if it is not.
C5_Bootstrap ==
    Ended /\ loaded /\ first_run =>
        /\ file = save_payload(current_urls)
        /\ load_state(file).urls = current_urls
        /\ exitCode = ExitOk
        /\ (~notifyFirst => notes = <<>>)
        /\ (notifyFirst /\ current_urls # {} =>
                /\ Len(notes) = 1
                /\ notes[1].urls = sorted(current_urls))

\* C6: diff_links returns exactly new - old, ascending and without repeats;
\* a non-bootstrap run with new URLs that got past its notification has made
\* exactly one send_email call, listing exactly current - previous in sorted
\* order and no URL of the previous set.
C6_NotifiesExactlyNew ==
    /\ \A old \in SUBSET URLS :
          /\ Range(diff_links(old, current_urls)) = current_urls \ old
          /\ Ascending(diff_links(old, current_urls))
    /\ (loaded => Range(new) = NewSet /\ Ascending(new))
    /\ (loaded /\ ~first_run /\ NewSet # {}
          /\ pc \in {"save_open", "save_write", "exited"} =>
            /\ Len(notes) = 1
            /\ Range(notes[1].urls) = NewSet
            /\ Ascending(notes[1].urls)
            /\ Len(notes[1].urls) = Cardinality(NewSet)
            /\ Range(notes[1].urls) \cap prev_urls = {})

\* C6 witness: a run has notified two new URLs while a previously seen URL
\* is no longer listed.
C6_Witness ==
    /\ Ended /\ loaded /\ ~first_run
    /\ Len(notes) = 1 /\ Len(notes[1].urls) = 2
    /\ prev_urls \ current_urls # {}

\* C7: in a non-bootstrap run with new URLs the save starts only after the
\* notification was attempted, the notification's outcome (missing
\* configuration, SMTP failure, sent) never ends the run, the save that
\* follows is of previous \cup new, and a save that completes leaves exactly
\* that set in the file whatever the outcome was.
C7_SaveDespiteMailFailure ==
    loaded /\ ~first_run =>
        /\ (saveCalled => Len(notes) = 1 /\ payload = prev_urls \cup Range(new))
        /\ (notes # <<>> =>
              /\ notes[1].result \in {"unconfigured", "smtp_error", "sent"}
              /\ failure # "notify"
              /\ pc \in {"save_open", "save_write", "exited", "killed"}
              /\ payload = prev_urls \cup Range(new))
        /\ (Ended /\ failure = "none" /\ notes # <<>> =>
              file = save_payload(prev_urls \cup NewSet))

\* C7 witness: a run whose SMTP session failed has ended with the union saved.
C7_Witness ==
    /\ Ended /\ loaded /\ ~first_run /\ failure = "none"
    /\ Len(notes) = 1 /\ notes[1].result = "smtp_error"
    /\ file = save_payload(prev_urls \cup NewSet)
    /\ file # fileAtStart

\* C7 witness for the other failure: the mail settings were missing.
C7_WitnessUnconfigured ==
    /\ Ended /\ loaded /\ ~first_run /\ failure = "none"
    /\ Len(notes) = 1 /\ notes[1].result = "unconfigured"
    /\ file = save_payload(prev_urls \cup NewSet)

\* C8: the state file is at every moment the complete snapshot the run found
\* or the complete snapshot the run saves.
C8_AtomicSave ==
    \/ file = fileAtStart
    \/ saveCalled /\ file = save_payload(payload)

C9_WitnessRoundTrip ==
    /\ Ended /\ loaded
    /\ file.kind = "ok" /\ Len(file.urls) > Cardinality(Range(file.urls))

\* The starts of the non-empty segments of a path.
SegmentStarts(s) ==
    {i \in 1..Len(s) : s[i] # "/" /\ (i = 1 \/ s[i - 1] = "/")}

\* Exactly one non-empty segment, no dot, and the segment longer than 8.
OneLongSegment(s) ==
    /\ Cardinality(SegmentStarts(s)) = 1
    /\ \A i \in 1..Len(s) : s[i] # "."
    /\ Cardinality({i \in 1..Len(s) : s[i] # "/"}) > 8

HasRejectMarker(s) == \E seg \in RejectMarkers : Contains(s, seg)

\* C10: the first applicable rule decides: a path with a reject marker is
\* not product-like even when an accept pattern matches; otherwise a path
\* matching an accept pattern is product-like; otherwise the path is
\* product-like only if it has exactly one non-empty segment, no dot and the
\* segment is longer than 8 characters, and every such path that contains a
\* "/" is product-like. /MtG-Booster-Display-Foo is product-like and
\* /c/MtG-Booster-Displays is not.
C10_RuleChain ==
    verdict # "pending" =>
        /\ verdict \in {"product", "other"}
        /\ (HasRejectMarker(path) => verdict = "other")
        /\ (~HasRejectMarker(path) /\ MatchesProductPattern(path)
              => verdict = "product")
        /\ (~HasRejectMarker(path) /\ ~MatchesProductPattern(path) =>
              /\ (verdict = "product" => OneLongSegment(path))
              /\ (OneLongSegment(path) /\ Contains(path, <<"/">>)
                    => verdict = "product"))
        /\ (path = PathProductExample => verdict = "product")
        /\ (path = PathCategoryExample => verdict = "other")

\* C10 witness: a path with a reject marker and an accept pattern has been
\* classified as not product-like.
C10_Witness ==
    /\ path = PathCategoryExample
    /\ HasRejectMarker(path) /\ MatchesProductPattern(path)
    /\ verdict = "other"

\* C10 witness for the fallback: a slug of nine characters that matches no
\* pattern has been classified as product-like.
C10_WitnessFallback ==
    /\ ~HasRejectMarker(path) /\ ~MatchesProductPattern(path)
    /\ OneLongSegment(path) /\ Len(Strip(path)) = 9
    /\ verdict = "product"

====
